---- MODULE Spec2Model ----
(***************************************************************************)
(* Model of the database access layer                                      *)
(* (src/src/business_analyzer/core/database.py, src/src/config.py):        *)
(* the Database facade (connect / close / execute_query / fetch_data /     *)
(* get_columns), the identifier validator, the connection resolver, the    *)
(* connection file reader with its password decryption, construction and   *)
(* the context manager; and                                                *)
(* the retry decorator of src/src/business_analyzer/ai/base.py.            *)
(*                                                                         *)
(* Strings that the code inspects character by character (SQL identifiers) *)
(* are sequences of one-character strings; Python's None is NoneStr for    *)
(* string-valued fields and NoneId for identifiers.                        *)
(***************************************************************************)
EXTENDS Integers, Sequences, FiniteSets, TLC

VARIABLES
    connection_type,  \* self.connection_type
    conn_details,     \* self.conn_details
    ncx_file,         \* the file at self.ncx_file_path
    cfg,              \* the Config class attributes
    modules,          \* PYMSSQL_AVAILABLE, PYODBC_AVAILABLE, NAVICAT_CIPHER_AVAILABLE, CRYPTO_AVAILABLE
    connection,       \* self._connection (NULL or a driver handle)
    cursor,           \* self._cursor
    driverOpen,       \* handles the driver currently has open
    openCalls,        \* number of driver connect() calls made so far
    phase,            \* where the caller is: before __init__, after a failed
                      \* __init__, holding the instance, or inside a with block
    lastOp            \* the last call on the instance and what it did

vars == <<connection_type, conn_details, ncx_file, cfg, modules, connection,
          cursor, driverOpen, openCalls, phase, lastOp>>

(***************************************************************************)
(* Bounds                                                                  *)
(***************************************************************************)
MaxOpens == 3      \* driver connect() calls explored per behaviour
MaxIdLen == 2      \* length of the exhaustively enumerated identifiers
MaxEntries == 2    \* <Connection> elements per enumerated connection file
MaxColumns == 2    \* columns of an enumerated result set
MaxRows == 2       \* rows of an enumerated result set
MaxAttempts == 3   \* max_attempts given to an enumerated retry_on_failure

(***************************************************************************)
(* Program constants                                                       *)
(***************************************************************************)
MaxIdentifierLength == 128
DefaultLimit == 1000
DefaultPort == 1433

NULL == 0
NoneStr == "None"
NoneId == <<"None">>

(***************************************************************************)
(* Characters                                                              *)
(***************************************************************************)
Letters ==
    {"a","b","c","d","e","f","g","h","i","j","k","l","m",
     "n","o","p","q","r","s","t","u","v","w","x","y","z",
     "A","B","C","D","E","F","G","H","I","J","K","L","M",
     "N","O","P","Q","R","S","T","U","V","W","X","Y","Z"}

Digits == {"0","1","2","3","4","5","6","7","8","9"}

\* the character class [a-zA-Z0-9_-]
IdentifierClass == Letters \cup Digits \cup {"_", "-"}

\* Python truthiness of an Optional[str] identifier
Truthy(s) == s /= NoneId /\ s /= <<>>

\* re.match(r"^[a-zA-Z0-9_-]+$", identifier): one or more characters of the
\* class, then the end of the string; Python's "$" also matches just before
\* a line break that ends the string.
ReMatch(identifier) ==
    LET n == Len(identifier)
        AllIn(k) == \A i \in 1..k : identifier[i] \in IdentifierClass
    IN  \/ n >= 1 /\ AllIn(n)
        \/ n >= 2 /\ identifier[n] = "\n" /\ AllIn(n - 1)

\* Database.validate_sql_identifier: the value returned or the ValueError.
validate_sql_identifier(identifier, param_name) ==
    IF ~Truthy(identifier)
    THEN [ok |-> FALSE, value |-> <<>>, error |-> "ValueError",
          msg |-> "cannot be empty"]
    ELSE IF ~ReMatch(identifier)
    THEN [ok |-> FALSE, value |-> <<>>, error |-> "ValueError",
          msg |-> "Invalid"]
    ELSE IF Len(identifier) > MaxIdentifierLength
    THEN [ok |-> FALSE, value |-> <<>>, error |-> "ValueError",
          msg |-> "too long"]
    ELSE [ok |-> TRUE, value |-> identifier, error |-> "none", msg |-> ""]

(***************************************************************************)
(* Connection resolution                                                   *)
(***************************************************************************)
\* A Python dict is a function from its keys; {} is the function on no key.
EmptyDict == [k \in {} |-> NoneStr]

\* Python truthiness of an Optional[str] attribute
TruthyStr(s) == s /= NoneStr /\ s /= ""

Raise(error, msg) == [ok |-> FALSE, details |-> EmptyDict, error |-> error, msg |-> msg]
Return(details) == [ok |-> TRUE, details |-> details, error |-> "none", msg |-> ""]

\* has_direct_db_config that looks at the host only
has_direct_db_config_HostOnly(c) == TruthyStr(c.DB_HOST)

\* Config.has_direct_db_config
has_direct_db_config(c) ==
    TruthyStr(c.DB_HOST) /\ TruthyStr(c.DB_USER) /\ TruthyStr(c.DB_PASSWORD)

\* Database._get_direct_connection_details
get_direct_connection_details(details, c) ==
    IF DOMAIN details /= {}
    THEN Return(details)
    ELSE IF ~has_direct_db_config(c)
    THEN Raise("ConnectionError", "No direct database configuration found")
    ELSE Return([Host |-> c.DB_HOST, Port |-> c.DB_PORT, UserName |-> c.DB_USER,
                 Password |-> c.DB_PASSWORD, Database |-> c.DB_NAME])

\* Database._get_ssh_connection_details
get_ssh_connection_details ==
    Raise("ConnectionError", "SSH tunnel connection not yet implemented")

\* Ciphertexts of the connection file and what each backend makes of them:
\* a backend either returns its plaintext or raises its cipher error.
NavicatDecryptable == {"ct_both", "ct_navicat_only"}
AesDecryptable == {"ct_both", "ct_aes_only"}
NavicatPlain(c) == "pw_navicat"
AesPlain(c) == "pw_aes"

\* What a _decrypt_navicat_password call did: the value returned or the
\* error raised, the strategies invoked in order, the warnings logged.
Decrypted(value, tried, warnings) ==
    [ok |-> TRUE, value |-> value, error |-> "none", msg |-> "",
     tried |-> tried, warnings |-> warnings]
DecryptRaise(error, msg, tried, warnings) ==
    [ok |-> FALSE, value |-> NoneStr, error |-> error, msg |-> msg,
     tried |-> tried, warnings |-> warnings]

\* _decrypt_navicat_password that tries the AES fallback before NavicatCipher
decrypt_navicat_password_AesFirst(encrypted_password, m) ==
    LET aes == m.CRYPTO_AVAILABLE
        nav == m.NAVICAT_CIPHER_AVAILABLE
        tried1 == IF aes THEN <<"aes">> ELSE <<>>
        warn1 == IF aes THEN <<"AES decryption failed">> ELSE <<>>
    IN  IF aes /\ encrypted_password \in AesDecryptable
        THEN Decrypted(AesPlain(encrypted_password), <<"aes">>, <<>>)
        ELSE IF nav /\ encrypted_password \in NavicatDecryptable
        THEN Decrypted(NavicatPlain(encrypted_password),
                       tried1 \o <<"navicat">>, warn1)
        ELSE DecryptRaise("ImportError", "No decryption method available",
                          tried1 \o (IF nav THEN <<"navicat">> ELSE <<>>),
                          warn1 \o (IF nav THEN <<"NavicatCipher decryption failed">>
                                    ELSE <<>>))

\* _decrypt_navicat_password without the try/except around each backend:
\* the first backend that fails raises its cipher error to the caller
decrypt_navicat_password_Propagates(encrypted_password, m) ==
    LET nav == m.NAVICAT_CIPHER_AVAILABLE
        aes == m.CRYPTO_AVAILABLE
    IN  IF nav
        THEN IF encrypted_password \in NavicatDecryptable
             THEN Decrypted(NavicatPlain(encrypted_password), <<"navicat">>, <<>>)
             ELSE DecryptRaise("CipherError", "cipher error", <<"navicat">>, <<>>)
        ELSE IF aes
        THEN IF encrypted_password \in AesDecryptable
             THEN Decrypted(AesPlain(encrypted_password), <<"aes">>, <<>>)
             ELSE DecryptRaise("CipherError", "cipher error", <<"aes">>, <<>>)
        ELSE DecryptRaise("ImportError", "No decryption method available",
                          <<>>, <<>>)

\* Database._decrypt_navicat_password
decrypt_navicat_password(encrypted_password, m) ==
    LET nav == m.NAVICAT_CIPHER_AVAILABLE
        aes == m.CRYPTO_AVAILABLE
        tried1 == IF nav THEN <<"navicat">> ELSE <<>>
        warn1 == IF nav THEN <<"NavicatCipher decryption failed">> ELSE <<>>
    IN  IF nav /\ encrypted_password \in NavicatDecryptable
        THEN Decrypted(NavicatPlain(encrypted_password), <<"navicat">>, <<>>)
        ELSE IF aes /\ encrypted_password \in AesDecryptable
        THEN Decrypted(AesPlain(encrypted_password), tried1 \o <<"aes">>, warn1)
        ELSE DecryptRaise("ImportError", "No decryption method available",
                          tried1 \o (IF aes THEN <<"aes">> ELSE <<>>),
                          warn1 \o (IF aes THEN <<"AES decryption failed">>
                                    ELSE <<>>))

\* int(port) succeeds on these Port attributes
IntStrings == {"1433", "1434"}
IntOf(p) == IF p = "1434" THEN 1434 ELSE 1433

\* The loop body of Database._parse_ncx_file for one <Connection> element:
\* "skip", "raise" (int(port) fails) or the dict appended.
ParseEntry(e, m) ==
    IF ~(TruthyStr(e.Host) /\ TruthyStr(e.UserName) /\ TruthyStr(e.Password))
    THEN [kind |-> "skip", details |-> EmptyDict]
    ELSE IF ~decrypt_navicat_password(e.Password, m).ok
    THEN [kind |-> "skip", details |-> EmptyDict]
    ELSE LET port == IF e.Port = NoneStr THEN "1433" ELSE e.Port
             database == IF e.Database = NoneId THEN <<"m","a","s","t","e","r">>
                         ELSE e.Database
         IN  IF port \notin IntStrings
             THEN [kind |-> "raise", details |-> EmptyDict]
             ELSE [kind |-> "append",
                   details |-> [Host |-> e.Host, Port |-> IntOf(port),
                                UserName |-> e.UserName,
                                Password |-> decrypt_navicat_password(e.Password, m).value,
                                Database |-> database]]

RECURSIVE ParseEntries(_, _, _)
ParseEntries(entries, m, acc) ==
    IF entries = <<>>
    THEN acc
    ELSE LET r == ParseEntry(Head(entries), m)
         IN  IF r.kind = "raise" THEN <<>>
             ELSE IF r.kind = "skip" THEN ParseEntries(Tail(entries), m, acc)
             ELSE ParseEntries(Tail(entries), m, Append(acc, r.details))

\* Database._parse_ncx_file: any exception (unparsable XML, int(port)) gives []
parse_ncx_file(f, m) ==
    IF ~f.wellformed THEN <<>> ELSE ParseEntries(f.entries, m, <<>>)

\* Database._load_navicat_connection
load_navicat_connection(f, m) ==
    IF ~f.exists
    THEN Raise("ConnectionError", "Navicat NCX file not found")
    ELSE LET connections == parse_ncx_file(f, m)
         IN  IF connections = <<>>
             THEN Raise("ConnectionError", "No valid connections found in NCX file")
             ELSE Return(connections[1])

\* _get_connection_details that falls back to the direct configuration when
\* the connection file gives nothing, and to the file when the direct
\* configuration is missing
get_connection_details_CrossesSources(type, details, f, c, m) ==
    LET file == load_navicat_connection(f, m)
        direct == get_direct_connection_details(details, c)
    IN  IF type = "NAVICAT" THEN (IF file.ok THEN file ELSE direct)
        ELSE IF type = "DIRECT" THEN (IF direct.ok THEN direct ELSE file)
        ELSE IF type = "SSH_TUNNEL" THEN get_ssh_connection_details
        ELSE Raise("ConnectionError", "Unsupported connection type")

\* _get_connection_details that treats SSH_TUNNEL as a direct connection
get_connection_details_SshAsDirect(type, details, f, c, m) ==
    IF type = "NAVICAT" THEN load_navicat_connection(f, m)
    ELSE IF type = "DIRECT" THEN get_direct_connection_details(details, c)
    ELSE IF type = "SSH_TUNNEL" THEN get_direct_connection_details(details, c)
    ELSE Raise("ConnectionError", "Unsupported connection type")

\* Database._get_connection_details
get_connection_details(type, details, f, c, m) ==
    IF type = "NAVICAT" THEN load_navicat_connection(f, m)
    ELSE IF type = "DIRECT" THEN get_direct_connection_details(details, c)
    ELSE IF type = "SSH_TUNNEL" THEN get_ssh_connection_details
    ELSE Raise("ConnectionError", "Unsupported connection type")

(***************************************************************************)
(* The facade: what one call does, as a function of the instance state and *)
(* of what the driver answers.                                             *)
(***************************************************************************)
Lit(s) == [kind |-> "lit", lit |-> s, id |-> <<>>]
Id(x) == [kind |-> "id", lit |-> "", id |-> x]

\* What a call did: the instance fields it leaves, the driver calls it made
\* (handles opened and closed, statements executed, commits), and its result.
Outcome(conn, cur) ==
    [connection |-> conn, cursor |-> cur, openCalls |-> 0, opened |-> {}, closed |-> {},
     closeCalls |-> 0, sent |-> <<>>, commits |-> 0, error |-> "none",
     msg |-> "", ret |-> "None", accepted |-> <<>>, rejected |-> <<>>,
     driver |-> "none", rows |-> <<>>, rowcount |-> 0,
     raised |-> "none", log |-> <<>>]

\* What the driver answers to connect(): a handle, or an exception: the
\* login is refused, the login timer expires ("Login timeout expired"), or
\* the server does not answer in time
\* ("Adaptive Server connection timed out").
OpenOutcomes == {"ok", "refused", "timeout", "timed_out"}
\* What the probe gives: a row, no row (fetchone() returns None), or an
\* exception of the statement.
ProbeOutcomes == {"row", "empty", "raise", "timeout"}

\* The exceptions the try block of connect() can catch: what made the call
\* fail and the text str(e) gives
DriverError(tag) ==
    CASE tag = "refused" ->
           [cause |-> "rejected", text |-> <<"L", "o", "g", "i", "n", " ", "f", "a", "i", "l", "e", "d">>]
      [] tag = "timeout" ->
           [cause |-> "timeout", text |-> <<"L", "o", "g", "i", "n", " ", "t", "i", "m", "e", "o", "u", "t", " ", "e", "x", "p", "i", "r", "e", "d">>]
      [] tag = "timed_out" ->
           [cause |-> "timeout", text |-> <<"A", "d", "a", "p", "t", "i", "v", "e", " ", "S", "e", "r", "v", "e", "r", " ", "c", "o", "n", "n", "e", "c", "t", "i", "o", "n", " ", "t", "i", "m", "e", "d", " ", "o", "u", "t">>]
      [] tag = "raise" ->
           [cause |-> "statement", text |-> <<"I", "n", "v", "a", "l", "i", "d", " ", "o", "b", "j", "e", "c", "t", " ", "n", "a", "m", "e">>]
      [] tag = "KeyError" ->
           [cause |-> "details", text |-> <<"'", "H", "o", "s", "t", "'">>]
      [] OTHER ->
           [cause |-> "driver", text |-> <<"N", "o", " ", "d", "a", "t", "a", "b", "a", "s", "e", " ", "d", "r", "i", "v", "e", "r", " ", "a", "v", "a", "i", "l", "a", "b", "l", "e">>]

\* str.lower() on the letters A-Z
UpperCase == <<"A", "B", "C", "D", "E", "F", "G", "H", "I", "J", "K", "L", "M", "N", "O", "P", "Q", "R", "S", "T", "U", "V", "W", "X", "Y", "Z">>
LowerCase == <<"a", "b", "c", "d", "e", "f", "g", "h", "i", "j", "k", "l", "m", "n", "o", "p", "q", "r", "s", "t", "u", "v", "w", "x", "y", "z">>
Lower(text) ==
    [i \in 1..Len(text) |->
        IF \E k \in 1..26 : UpperCase[k] = text[i]
        THEN LowerCase[CHOOSE k \in 1..26 : UpperCase[k] = text[i]]
        ELSE text[i]]

\* needle in hay
Contains(needle, hay) ==
    \E i \in 0..(Len(hay) - Len(needle)) :
        SubSeq(hay, i + 1, i + Len(needle)) = needle

\* The message of the ConnectionError the except branch of connect() raises
ConnectionErrorText(tag) ==
    IF Contains(<<"t", "i", "m", "e", "o", "u", "t">>, Lower(DriverError(tag).text))
    THEN "Database connection timeout"
    ELSE "Failed to connect to database"

\* dict.get(key, default)
Get(d, key, default) == IF key \in DOMAIN d THEN d[key] ELSE default

\* the first log line of connect() with the user name added
ConnectingLine_WithUser(details, c) ==
    [level |-> "info", text |-> "Connecting to database at",
     host |-> Get(details, "Host", NoneStr),
     port |-> Get(details, "Port", 0),
     database |-> Get(details, "Database", c.DB_NAME),
     extra |-> Get(details, "UserName", NoneStr)]

\* The first log line of connect(): host, port and database only
ConnectingLine(details, c) ==
    [level |-> "info", text |-> "Connecting to database at",
     host |-> Get(details, "Host", NoneStr),
     port |-> Get(details, "Port", 0),
     database |-> Get(details, "Database", c.DB_NAME),
     extra |-> NoneStr]

\* A log line without interpolated connection data
LogLine(level, text, extra) ==
    [level |-> level, text |-> text, host |-> NoneStr, port |-> 0,
     database |-> <<>>, extra |-> extra]
CloseOutcomes == {"ok", "raise"}

\* The driver module a call goes to: pymssql when it was imported, pyodbc
\* otherwise
DriverFor_PrefersOdbc(m) ==
    IF m.PYODBC_AVAILABLE THEN "pyodbc"
    ELSE IF m.PYMSSQL_AVAILABLE THEN "pymssql"
    ELSE "none"

DriverFor(m) ==
    IF m.PYMSSQL_AVAILABLE THEN "pymssql"
    ELSE IF m.PYODBC_AVAILABLE THEN "pyodbc"
    ELSE "none"

\* The data of a result set: column names in order and positional rows
ResultData(columns, tuples) == [columns |-> columns, tuples |-> tuples]

\* One row as a pymssql as_dict cursor yields it: a dict filled column by
\* column, a repeated name keeping the later value
RECURSIVE AssocRow(_, _)
AssocRow(columns, row) ==
    IF columns = <<>>
    THEN EmptyDict
    ELSE LET n == Len(columns)
             k == columns[n]
             rest == AssocRow(SubSeq(columns, 1, n - 1), SubSeq(row, 1, n - 1))
         IN  [x \in DOMAIN rest \cup {k} |-> IF x = k THEN row[n] ELSE rest[x]]

\* What the driver answers to cursor.execute and the reads after it: an
\* exception, or the result set as each driver presents it (pymssql iterates
\* associative rows, pyodbc gives cursor.description and fetchall() tuples)
\* and the affected-row count.
DriverRaises ==
    [kind |-> "raise", assoc |-> <<>>, description |-> <<>>, tuples |-> <<>>,
     rowcount |-> 0]
DriverAnswers(data, rowcount) ==
    [kind |-> "ok",
     assoc |-> [i \in 1..Len(data.tuples) |-> AssocRow(data.columns, data.tuples[i])],
     description |-> data.columns,
     tuples |-> data.tuples,
     rowcount |-> rowcount]

SampleData == ResultData(<<"id", "n">>, << <<1, 2>>, <<3, 4>> >>)
ExecOutcomes == {DriverAnswers(SampleData, 2), DriverRaises}

\* zip(columns, row): pairs up to the shorter of the two
Zip(columns, row) ==
    LET n == IF Len(columns) <= Len(row) THEN Len(columns) ELSE Len(row)
    IN  [i \in 1..n |-> <<columns[i], row[i]>>]

\* dict(pairs) that keeps the first value of a repeated key
Dict_FirstWins(pairs) ==
    LET keys == {pairs[i][1] : i \in 1..Len(pairs)}
        First(k) == CHOOSE i \in 1..Len(pairs) :
                        /\ pairs[i][1] = k
                        /\ \A j \in 1..Len(pairs) : pairs[j][1] = k => i <= j
    IN  [k \in keys |-> pairs[First(k)][2]]

\* dict(pairs): the last pair of a key gives its value
Dict(pairs) ==
    LET keys == {pairs[i][1] : i \in 1..Len(pairs)}
        Last(k) == CHOOSE i \in 1..Len(pairs) :
                       /\ pairs[i][1] = k
                       /\ \A j \in 1..Len(pairs) : pairs[j][1] = k => j <= i
    IN  [k \in keys |-> pairs[Last(k)][2]]

\* The fetch branch of execute_query: list(cursor) on pymssql, the zip of
\* cursor.description names with each fetchall() tuple on pyodbc
FetchRows(driver, answer) ==
    IF driver = "pymssql"
    THEN answer.assoc
    ELSE LET columns == IF answer.description /= <<>>
                        THEN answer.description ELSE <<>>
         IN  [i \in 1..Len(answer.tuples) |-> Dict(Zip(columns, answer.tuples[i]))]

ProbeQuery == [query |-> <<Lit("SELECT 1 as test")>>, params |-> <<>>]

\* conn_details["Host"], ["Port"], ["UserName"], ["Password"] in the driver
\* call raise KeyError when a key is missing
DriverArgsPresent(d) == {"Host", "Port", "UserName", "Password"} \subseteq DOMAIN d

\* connect() whose except branch forgets to reset self._connection
ConnectFresh_KeepsHandle(conn, cur, res, c, m, openOut, probeOut, h) ==
    LET o == Outcome(conn, cur)
        Fail(base, tag) ==
            [base EXCEPT !.error = "ConnectionError", !.raised = tag,
                         !.msg = ConnectionErrorText(tag)]
        logged == [o EXCEPT !.log = <<ConnectingLine(res.details, c)>>]
        called == [logged EXCEPT !.openCalls = 1, !.driver = DriverFor(m)]
    IN  IF ~res.ok
        THEN [o EXCEPT !.error = res.error, !.msg = res.msg]
        ELSE IF ~(m.PYMSSQL_AVAILABLE \/ m.PYODBC_AVAILABLE)
        THEN Fail(logged, "NoDriver")
        ELSE IF ~DriverArgsPresent(res.details)
        THEN Fail(logged, "KeyError")
        ELSE IF openOut /= "ok"
        THEN Fail(called, openOut)
        ELSE LET opened ==
                     [called EXCEPT
                         !.opened = {h}, !.connection = h,
                         !.sent = <<ProbeQuery>>,
                         !.log = @ \o <<LogLine("info", "Connected to database successfully", NoneStr)>>]
             IN  IF probeOut \in {"raise", "timeout"}
                 THEN Fail(opened, probeOut)
                 ELSE [opened EXCEPT
                          !.ret = "self",
                          !.log = @ \o <<LogLine("info", "DB connection test",
                                                 IF probeOut = "row" THEN "(1,)" ELSE NoneStr)>>]

\* Database.connect past the already-connected check: resolve, log host, port
\* and database, open, probe; any exception in the try block resets
\* self._connection and is re-raised as ConnectionError. res is the result of
\* _get_connection_details, h the handle the driver returns if it opens.
ConnectFresh(conn, cur, res, c, m, openOut, probeOut, h) ==
    LET o == Outcome(conn, cur)
        Fail(base, tag) ==
            [base EXCEPT !.connection = NULL, !.error = "ConnectionError", !.raised = tag,
                         !.msg = ConnectionErrorText(tag)]
        logged == [o EXCEPT !.log = <<ConnectingLine(res.details, c)>>]
        called == [logged EXCEPT !.openCalls = 1, !.driver = DriverFor(m)]
    IN  IF ~res.ok
        THEN [o EXCEPT !.error = res.error, !.msg = res.msg]
        ELSE IF ~(m.PYMSSQL_AVAILABLE \/ m.PYODBC_AVAILABLE)
        THEN Fail(logged, "NoDriver")
        ELSE IF ~DriverArgsPresent(res.details)
        THEN Fail(logged, "KeyError")
        ELSE IF openOut /= "ok"
        THEN Fail(called, openOut)
        ELSE LET opened ==
                     [called EXCEPT
                         !.opened = {h}, !.connection = h,
                         !.sent = <<ProbeQuery>>,
                         !.log = @ \o <<LogLine("info", "Connected to database successfully", NoneStr)>>]
             IN  IF probeOut \in {"raise", "timeout"}
                 THEN Fail(opened, probeOut)
                 ELSE [opened EXCEPT
                          !.ret = "self",
                          !.log = @ \o <<LogLine("info", "DB connection test",
                                                 IF probeOut = "row" THEN "(1,)" ELSE NoneStr)>>]

\* connect() without the already-connected early return
Connect_Reopens(conn, cur, res, c, m, openOut, probeOut, h) ==
    ConnectFresh(conn, cur, res, c, m, openOut, probeOut, h)

\* Database.connect
Connect(conn, cur, res, c, m, openOut, probeOut, h) ==
    IF conn /= NULL
    THEN [Outcome(conn, cur) EXCEPT
             !.ret = "self",
             !.log = <<LogLine("warning", "Connection already established", NoneStr)>>]
    ELSE ConnectFresh(conn, cur, res, c, m, openOut, probeOut, h)

\* close() that closes the handle and keeps the reference to it
Close_KeepsField(conn, cur, closeOut) ==
    LET o == Outcome(conn, cur)
    IN  IF conn /= NULL
        THEN [o EXCEPT !.closeCalls = 1,
                       !.closed = IF closeOut = "ok" THEN {conn} ELSE {}]
        ELSE o

\* close() without the except/finally: a driver close error propagates and
\* the fields keep their values
Close_NoFinally(conn, cur, closeOut) ==
    LET o == Outcome(conn, cur)
    IN  IF conn /= NULL
        THEN IF closeOut = "ok"
             THEN [o EXCEPT !.connection = NULL, !.cursor = NULL,
                            !.closeCalls = 1, !.closed = {conn}]
             ELSE [o EXCEPT !.closeCalls = 1, !.error = "DriverError",
                            !.msg = "driver exception"]
        ELSE o

\* Database.close
Close(conn, cur, closeOut) ==
    LET o == Outcome(conn, cur)
    IN  IF conn /= NULL
        THEN [o EXCEPT !.connection = NULL, !.cursor = NULL, !.closeCalls = 1,
                       !.closed = IF closeOut = "ok" THEN {conn} ELSE {}]
        ELSE o

\* Database.__enter__: connect() and return self
Enter(conn, cur, res, c, m, openOut, probeOut, h) ==
    Connect(conn, cur, res, c, m, openOut, probeOut, h)

\* __exit__ that returns False without closing
Exit_NoClose(conn, cur, closeOut) ==
    [Outcome(conn, cur) EXCEPT !.ret = "False"]

\* Database.__exit__: close() and return False
Exit(conn, cur, closeOut) ==
    [Close(conn, cur, closeOut) EXCEPT !.ret = "False"]

\* Database.is_connected
is_connected(conn) == conn /= NULL

\* execute_query that runs a failed statement a second time
RunStatement_Retries(conn, cur, query, params, fetch, execOut) ==
    LET o == Outcome(conn, cur)
        stmt == [query |-> query, params |-> params]
        sent == [o EXCEPT !.sent = <<stmt>>, !.driver = DriverFor(modules)]
    IN  IF conn = NULL
        THEN [o EXCEPT !.error = "QueryError", !.msg = "Query execution failed"]
        ELSE IF execOut.kind = "raise"
        THEN [sent EXCEPT !.sent = <<stmt, stmt>>, !.error = "QueryError",
                          !.msg = "Query execution failed"]
        ELSE IF fetch
        THEN [sent EXCEPT !.ret = "rows",
                          !.rows = FetchRows(DriverFor(modules), execOut)]
        ELSE [sent EXCEPT !.ret = "rowcount", !.rowcount = execOut.rowcount,
                          !.commits = 1]

\* execute_query that commits after every statement, fetched or not
RunStatement_AlwaysCommits(conn, cur, query, params, fetch, execOut) ==
    LET o == Outcome(conn, cur)
        sent == [o EXCEPT !.sent = <<[query |-> query, params |-> params]>>,
                          !.driver = DriverFor(modules)]
    IN  IF conn = NULL
        THEN [o EXCEPT !.error = "QueryError", !.msg = "Query execution failed"]
        ELSE IF execOut.kind = "raise"
        THEN [sent EXCEPT !.error = "QueryError", !.msg = "Query execution failed"]
        ELSE IF fetch
        THEN [sent EXCEPT !.ret = "rows", !.commits = 1,
                          !.rows = FetchRows(DriverFor(modules), execOut)]
        ELSE [sent EXCEPT !.ret = "rowcount", !.rowcount = execOut.rowcount,
                          !.commits = 1]

\* The try block of Database.execute_query: cursor, execute, fetch or
\* commit; every exception in it (also the AttributeError of a None
\* connection) becomes QueryError. The driver is chosen by the module flag
\* PYMSSQL_AVAILABLE, read where the code reads it.
RunStatement(conn, cur, query, params, fetch, execOut) ==
    LET o == Outcome(conn, cur)
        sent == [o EXCEPT !.sent = <<[query |-> query, params |-> params]>>,
                          !.driver = DriverFor(modules)]
    IN  IF conn = NULL
        THEN [o EXCEPT !.error = "QueryError", !.msg = "Query execution failed"]
        ELSE IF execOut.kind = "raise"
        THEN [sent EXCEPT !.error = "QueryError", !.msg = "Query execution failed"]
        ELSE IF fetch
        THEN [sent EXCEPT !.ret = "rows",
                          !.rows = FetchRows(DriverFor(modules), execOut)]
        ELSE [sent EXCEPT !.ret = "rowcount", !.rowcount = execOut.rowcount,
                          !.commits = 1]

\* execute_query without the not-connected check
ExecuteQuery_Unchecked(conn, cur, query, params, fetch, execOut) ==
    RunStatement(conn, cur, query, params, fetch, execOut)

\* Database.execute_query
ExecuteQuery(conn, cur, query, params, fetch, execOut) ==
    IF conn = NULL
    THEN [Outcome(conn, cur) EXCEPT !.error = "ConnectionError",
                                    !.msg = "Not connected to database"]
    ELSE RunStatement(conn, cur, query, params, fetch, execOut)

\* A bound parameter of a statement
IntParam(n) == [kind |-> "int", n |-> n, id |-> <<>>, s |-> ""]
CodeParam(x) == [kind |-> "code", n |-> 0, id |-> x, s |-> ""]
DateParam(d) == [kind |-> "date", n |-> 0, id |-> <<>>, s |-> d]

\* items joined by a separator: sep.join(items)
RECURSIVE Join(_, _)
Join(items, sep) ==
    IF items = <<>> THEN <<>>
    ELSE IF Len(items) = 1 THEN items
    ELSE <<Head(items), sep>> \o Join(Tail(items), sep)

\* a comprehension that uses the elements without validating them
RECURSIVE ValidateAll_Unchecked(_, _)
ValidateAll_Unchecked(ids, param_name) ==
    IF ids = <<>>
    THEN [ok |-> TRUE, values |-> <<>>, rejected |-> <<>>, msg |-> ""]
    ELSE [ValidateAll_Unchecked(Tail(ids), param_name)
            EXCEPT !.values = <<Head(ids)>> \o @]

\* validate_sql_identifier applied to each element in order, as the loops of
\* fetch_data do: the values returned, or the first ValueError.
RECURSIVE ValidateAll(_, _)
ValidateAll(ids, param_name) ==
    IF ids = <<>>
    THEN [ok |-> TRUE, values |-> <<>>, rejected |-> <<>>, msg |-> ""]
    ELSE LET v == validate_sql_identifier(Head(ids), param_name)
             rest == ValidateAll(Tail(ids), param_name)
         IN  IF ~v.ok
             THEN [ok |-> FALSE, values |-> <<>>, rejected |-> <<Head(ids)>>, msg |-> v.msg]
             ELSE [rest EXCEPT !.values = <<v.value>> \o rest.values]

NoLimit == -1      \* limit=None
NoColumns == <<>>  \* columns=None or []: both are falsy
NoCodes == <<>>    \* excluded_codes=[]
NoneCodes == <<NoneId>>    \* excluded_codes=None, the default
\* Python truthiness of an Optional[List[str]] argument
TruthyList(l) == l /= NoneCodes /\ l /= <<>>

\* Database.fetch_data
\* the exclusion filter with one placeholder fewer than codes bound
ExclusionFilter_DropsPlaceholder(codes) ==
    [clause |-> IF codes /= <<>>
                THEN <<Lit(" WHERE DocumentosCodigo NOT IN (")>>
                     \o Join([i \in 1..(Len(codes) - 1) |-> Lit("%s")], Lit(", "))
                     \o <<Lit(")")>>
                ELSE <<>>,
     params |-> [i \in 1..Len(codes) |-> CodeParam(codes[i])]]

\* The exclusion branch of fetch_data: the WHERE ... NOT IN clause with one
\* %s per code and the codes as parameters, or nothing for no codes
ExclusionFilter(codes) ==
    [clause |-> IF codes /= <<>>
                THEN <<Lit(" WHERE DocumentosCodigo NOT IN (")>>
                     \o Join([i \in 1..Len(codes) |-> Lit("%s")], Lit(", "))
                     \o <<Lit(")")>>
                ELSE <<>>,
     params |-> [i \in 1..Len(codes) |-> CodeParam(codes[i])]]

\* the date filter that binds the end date before the start date
DateFilter_EndFirst(start_date, end_date) ==
    IF TruthyStr(start_date) /\ TruthyStr(end_date)
    THEN [clause |-> <<Lit(" AND Fecha BETWEEN %s AND %s")>>,
          params |-> <<DateParam(end_date), DateParam(start_date)>>]
    ELSE IF TruthyStr(start_date)
    THEN [clause |-> <<Lit(" AND Fecha >= %s")>>,
          params |-> <<DateParam(start_date)>>]
    ELSE IF TruthyStr(end_date)
    THEN [clause |-> <<Lit(" AND Fecha <= %s")>>,
          params |-> <<DateParam(end_date)>>]
    ELSE [clause |-> <<>>, params |-> <<>>]

\* The date branch of fetch_data: the text appended to the query and the
\* parameters appended to the list
DateFilter(start_date, end_date) ==
    IF TruthyStr(start_date) /\ TruthyStr(end_date)
    THEN [clause |-> <<Lit(" AND Fecha BETWEEN %s AND %s")>>,
          params |-> <<DateParam(start_date), DateParam(end_date)>>]
    ELSE IF TruthyStr(start_date)
    THEN [clause |-> <<Lit(" AND Fecha >= %s")>>,
          params |-> <<DateParam(start_date)>>]
    ELSE IF TruthyStr(end_date)
    THEN [clause |-> <<Lit(" AND Fecha <= %s")>>,
          params |-> <<DateParam(end_date)>>]
    ELSE [clause |-> <<>>, params |-> <<>>]

FetchData(conn, cur, c, table, limit, start_date, end_date, excluded_codes, columns, execOut) ==
    LET o == Outcome(conn, cur)
        Reject(acc, bad, text) ==
            [o EXCEPT !.error = "ValueError", !.msg = text,
                      !.accepted = acc, !.rejected = bad]
        lim == IF limit = NoLimit THEN c.DEFAULT_LIMIT ELSE limit
        v_db == validate_sql_identifier(c.DB_NAME, "database name")
        v_table == validate_sql_identifier(
                       IF Truthy(table) THEN table ELSE c.DB_TABLE, "table name")
        codes == IF TruthyList(excluded_codes) THEN excluded_codes
                 ELSE c.EXCLUDED_DOCUMENT_CODES
        v_codes == ValidateAll(codes, "excluded document code")
        v_cols == ValidateAll(columns, "column")
        col_str == IF columns /= <<>>
                   THEN Join([i \in 1..Len(v_cols.values) |-> Id(v_cols.values[i])],
                             Lit(", "))
                   ELSE <<Lit("*")>>
        from == <<Lit("SELECT TOP %s ")>> \o col_str
                \o <<Lit(" FROM ["), Id(v_db.value), Lit("].[dbo].["),
                     Id(v_table.value), Lit("]")>>
        exclusion == ExclusionFilter(codes)
        dates == DateFilter(start_date, end_date)
        query == from \o exclusion.clause \o dates.clause
        params == <<IntParam(lim)>> \o exclusion.params \o dates.params
        acc2 == <<v_db.value, v_table.value>>
    IN  IF ~v_db.ok THEN Reject(<<>>, <<c.DB_NAME>>, v_db.msg)
        ELSE IF ~v_table.ok
        THEN Reject(<<v_db.value>>,
                    <<IF Truthy(table) THEN table ELSE c.DB_TABLE>>, v_table.msg)
        ELSE IF ~v_codes.ok
        THEN Reject(acc2 \o v_codes.values, v_codes.rejected, v_codes.msg)
        ELSE IF ~v_cols.ok
        THEN Reject(acc2 \o v_codes.values \o v_cols.values, v_cols.rejected, v_cols.msg)
        ELSE [ExecuteQuery(conn, cur, query, params, TRUE, execOut)
                EXCEPT !.accepted = acc2 \o v_codes.values \o v_cols.values]

\* Database.get_columns
GetColumns(conn, cur, c, table, execOut) ==
    LET o == Outcome(conn, cur)
        v_table == validate_sql_identifier(
                       IF Truthy(table) THEN table ELSE c.DB_TABLE, "table name")
        v_db == validate_sql_identifier(c.DB_NAME, "database name")
        query == <<Lit("SELECT TOP 0 * FROM ["), Id(v_db.value), Lit("].[dbo].["),
                   Id(v_table.value), Lit("]")>>
        sent == [o EXCEPT !.sent = <<[query |-> query, params |-> <<>>]>>,
                          !.accepted = <<v_table.value, v_db.value>>]
    IN  IF ~v_table.ok
        THEN [o EXCEPT !.error = "ValueError", !.msg = v_table.msg,
                       !.rejected = <<IF Truthy(table) THEN table ELSE c.DB_TABLE>>]
        ELSE IF ~v_db.ok
        THEN [o EXCEPT !.error = "ValueError", !.msg = v_db.msg,
                       !.accepted = <<v_table.value>>, !.rejected = <<c.DB_NAME>>]
        ELSE IF conn = NULL
        THEN [o EXCEPT !.error = "AttributeError",
                       !.msg = "'NoneType' object has no attribute 'cursor'",
                       !.accepted = <<v_table.value, v_db.value>>]
        ELSE IF execOut.kind = "raise"
        THEN [sent EXCEPT !.error = "DriverError", !.msg = "driver exception"]
        ELSE [sent EXCEPT !.ret = "columns"]

(***************************************************************************)
(* Installations: the configuration, files and modules an instance is      *)
(* constructed under.                                                      *)
(***************************************************************************)
SmartBusiness == <<"S","m","a","r","t","B","u","s","i","n","e","s","s">>
banco_datos == <<"b","a","n","c","o","_","d","a","t","o","s">>
TestDB == <<"T","e","s","t","D","B">>

\* Config with DB_HOST, DB_USER and DB_PASSWORD set in the environment
ConfigOf(host, user, password, db_name) ==
    [DB_HOST |-> host, DB_PORT |-> DefaultPort, DB_USER |-> user,
     DB_PASSWORD |-> password, DB_NAME |-> db_name, DB_TABLE |-> banco_datos,
     EXCLUDED_DOCUMENT_CODES |-> << <<"X","Y">>, <<"A","S">>, <<"T","S">> >>,
     DEFAULT_LIMIT |-> DefaultLimit]

CfgComplete == ConfigOf("db.example", "user", "secret", SmartBusiness)
CfgNoPassword == ConfigOf("db.example", "user", NoneStr, SmartBusiness)
CfgBadName == ConfigOf("db.example", "user", "secret", <<"m","y"," ","d","b">>)

FullDetails ==
    [Host |-> "test-server", Port |-> 1433, UserName |-> "testuser",
     Password |-> "testpass", Database |-> TestDB]
DetailsNoHost ==
    [Port |-> 1433, UserName |-> "testuser", Password |-> "testpass",
     Database |-> TestDB]

Entry(host, user, password, port, database) ==
    [Host |-> host, UserName |-> user, Password |-> password, Port |-> port,
     Database |-> database]

NoFile == [exists |-> FALSE, wellformed |-> FALSE, entries |-> <<>>]
FileOf(entries) == [exists |-> TRUE, wellformed |-> TRUE, entries |-> entries]
GoodFile ==
    FileOf(<<Entry("h1", "u1", "ct_none", "1433", TestDB),
             Entry("h2", "u2", "ct_both", NoneStr, NoneId)>>)
\* a readable file none of whose entries is usable
BarrenFile ==
    FileOf(<<Entry("h4", "u4", "ct_none", "1433", TestDB),
             Entry(NoneStr, "u3", "ct_both", "1433", TestDB)>>)

AllModules ==
    [PYMSSQL_AVAILABLE |-> TRUE, PYODBC_AVAILABLE |-> TRUE,
     NAVICAT_CIPHER_AVAILABLE |-> TRUE, CRYPTO_AVAILABLE |-> TRUE]
OdbcOnly == [AllModules EXCEPT !.PYMSSQL_AVAILABLE = FALSE]

Installation(type, details, f, c, m) ==
    /\ connection_type = type
    /\ conn_details = details
    /\ ncx_file = f
    /\ cfg = c
    /\ modules = m

\* Database.__init__ leaves the instance unconnected
Constructed ==
    /\ connection = NULL
    /\ cursor = NULL
    /\ driverOpen = {}
    /\ openCalls = 0
    /\ phase = "live"
    /\ lastOp = [op |-> "__init__", pre |-> NULL, arg |-> <<>>,
                 out |-> Outcome(NULL, NULL)]

Init ==
    /\ \/ Installation("DIRECT", FullDetails, NoFile, CfgComplete, AllModules)
       \/ Installation("DIRECT", DetailsNoHost, NoFile, CfgComplete, AllModules)
       \/ Installation("DIRECT", EmptyDict, NoFile, CfgComplete, AllModules)
       \/ Installation("DIRECT", EmptyDict, NoFile, CfgComplete, OdbcOnly)
       \/ Installation("DIRECT", EmptyDict, GoodFile, CfgNoPassword, AllModules)
       \/ Installation("DIRECT", EmptyDict, NoFile, CfgBadName, AllModules)
       \/ Installation("SSH_TUNNEL", EmptyDict, NoFile, CfgComplete, AllModules)
       \/ Installation("SSH_TUNNEL", FullDetails, GoodFile, CfgComplete, AllModules)
       \/ Installation("NAVICAT", EmptyDict, NoFile, CfgComplete, AllModules)
       \/ Installation("NAVICAT", FullDetails, BarrenFile, CfgComplete, AllModules)
       \/ Installation("NAVICAT", EmptyDict, GoodFile, CfgComplete, AllModules)
    /\ Constructed

(***************************************************************************)
(* Calls on the instance                                                   *)
(***************************************************************************)
\* The effect of a call on the instance and on the driver
Effect(op, arg, out) ==
    /\ connection' = out.connection
    /\ cursor' = out.cursor
    /\ driverOpen' = (driverOpen \cup out.opened) \ out.closed
    /\ openCalls' = openCalls + out.openCalls
    /\ lastOp' = [op |-> op, pre |-> connection, arg |-> arg, out |-> out]
    /\ UNCHANGED <<connection_type, conn_details, ncx_file, cfg, modules>>

\* A method call on a constructed instance, inside or outside a with block
Apply(op, arg, out) ==
    /\ phase \in {"live", "with"}
    /\ Effect(op, arg, out)
    /\ UNCHANGED phase

connect ==
    \E openOut \in OpenOutcomes, probeOut \in ProbeOutcomes :
        LET res == get_connection_details(connection_type, conn_details,
                                          ncx_file, cfg, modules)
            out == Connect(connection, cursor, res, cfg, modules, openOut, probeOut,
                           openCalls + 1)
        IN  /\ openCalls + out.openCalls <= MaxOpens
            /\ Apply("connect", <<>>, out)

close ==
    \E closeOut \in CloseOutcomes :
        Apply("close", <<>>, Close(connection, cursor, closeOut))

Statement == <<Lit("SELECT * FROM table")>>

execute_query ==
    \E fetch \in BOOLEAN, execOut \in ExecOutcomes :
        Apply("execute_query", [fetch |-> fetch],
              ExecuteQuery(connection, cursor, Statement, <<>>, fetch, execOut))

\* Arguments drawn for fetch_data and get_columns
GoodTable == <<"t","1">>
BadTable == <<"t",";","x">>
NewlineTable == <<"t","\n">>
Tables == {NoneId, GoodTable, BadTable, NewlineTable}
ColumnLists == {NoColumns, <<<<"i","d">>>>, <<<<"i","d">>, <<"n"," ","-","-">>>>}
CodeLists == {NoneCodes, NoCodes, <<<<"X","Y">>>>, <<<<"X","'">>>>}
Dates == {NoneStr, "2025-01-01"}
Limits == {NoLimit, 50}

FetchArgs(table, limit, start_date, end_date, excluded_codes, columns) ==
    [table |-> table, limit |-> limit, start_date |-> start_date,
     end_date |-> end_date, excluded_codes |-> excluded_codes,
     columns |-> columns]

fetch_data ==
    \E table \in Tables, columns \in ColumnLists, execOut \in ExecOutcomes :
        Apply("fetch_data",
              FetchArgs(table, NoLimit, NoneStr, NoneStr, NoneCodes, columns),
              FetchData(connection, cursor, cfg, table, NoLimit, NoneStr,
                        NoneStr, NoneCodes, columns, execOut))

get_columns ==
    \E table \in Tables, execOut \in ExecOutcomes :
        Apply("get_columns", [table |-> table],
              GetColumns(connection, cursor, cfg, table, execOut))

Next ==
    \/ connect
    \/ close
    \/ execute_query
    \/ fetch_data
    \/ get_columns

Spec == Init /\ [][Next]_vars

(***************************************************************************)
(* fetch_data over all its argument shapes, on an instance that connects   *)
(* once                                                                    *)
(***************************************************************************)
InitFetch ==
    /\ \/ Installation("DIRECT", FullDetails, NoFile, CfgComplete, AllModules)
       \/ Installation("DIRECT", FullDetails, NoFile, CfgBadName, AllModules)
    /\ Constructed

connect_once == openCalls = 0 /\ connect

fetch_data_any ==
    \E table \in Tables, limit \in Limits, start_date \in Dates,
       end_date \in Dates, excluded_codes \in CodeLists,
       columns \in ColumnLists, execOut \in ExecOutcomes :
        Apply("fetch_data",
              FetchArgs(table, limit, start_date, end_date, excluded_codes, columns),
              FetchData(connection, cursor, cfg, table, limit, start_date,
                        end_date, excluded_codes, columns, execOut))

NextFetch ==
    \/ connect_once
    \/ close
    \/ fetch_data_any
    \/ get_columns

SpecFetch == InitFetch /\ [][NextFetch]_vars

(***************************************************************************)
(* fetch_data over its filter arguments: limits, code lists and dates      *)
(***************************************************************************)
\* a configuration that excludes no document code
CfgNoExclusions == [CfgComplete EXCEPT !.EXCLUDED_DOCUMENT_CODES = <<>>]

QueryDates == {NoneStr, "", "2025-01-01", "2025-12-31"}
QueryCodeLists == {NoneCodes, NoCodes, <<<<"X","Y">>>>, <<<<"Z","Z">>, <<"X","Y">>>>}
QueryColumnLists == {NoColumns, <<<<"i","d">>>>}

InitQuery ==
    /\ \/ Installation("DIRECT", FullDetails, NoFile, CfgComplete, AllModules)
       \/ Installation("DIRECT", FullDetails, NoFile, CfgNoExclusions, AllModules)
    /\ Constructed

fetch_data_filters ==
    \E limit \in Limits, start_date \in QueryDates, end_date \in QueryDates,
       excluded_codes \in QueryCodeLists, columns \in QueryColumnLists :
        Apply("fetch_data",
              FetchArgs(NoneId, limit, start_date, end_date, excluded_codes, columns),
              FetchData(connection, cursor, cfg, NoneId, limit, start_date,
                        end_date, excluded_codes, columns,
                        DriverAnswers(SampleData, 2)))

NextQuery ==
    \/ connect_once
    \/ close
    \/ fetch_data_filters

SpecQuery == InitQuery /\ [][NextQuery]_vars

(***************************************************************************)
(* The identifier validator over enumerated strings                        *)
(***************************************************************************)
SampleChars == {"a", "Z", "7", "_", "-", ";", " ", "\n"}
Rep(ch, n) == [i \in 1..n |-> ch]
ShortIdentifiers == UNION {[1..n -> SampleChars] : n \in 0..MaxIdLen}
LongIdentifiers ==
    {Rep("a", n) \o suffix :
        n \in (MaxIdentifierLength - 2)..(MaxIdentifierLength + 1),
        suffix \in UNION {[1..k -> SampleChars] : k \in 0..1}}
Identifiers == ShortIdentifiers \cup LongIdentifiers \cup {NoneId}
ParamNames == {"table name", "column"}

InitValidate ==
    /\ Installation("DIRECT", FullDetails, NoFile, CfgComplete, AllModules)
    /\ Constructed

validate ==
    \E identifier \in Identifiers, param_name \in ParamNames :
        /\ lastOp' = [op |-> "validate_sql_identifier", pre |-> connection,
                      arg |-> [identifier |-> identifier, param_name |-> param_name],
                      out |-> validate_sql_identifier(identifier, param_name)]
        /\ UNCHANGED <<connection_type, conn_details, ncx_file, cfg, modules,
                       connection, cursor, driverOpen, openCalls, phase>>

NextValidate == validate

SpecValidate == InitValidate /\ [][NextValidate]_vars

(***************************************************************************)
(* The connection resolver over installations                              *)
(***************************************************************************)
EnvValues == {NoneStr, "", "set"}

InitResolve ==
    /\ connection_type \in {"DIRECT", "SSH_TUNNEL", "NAVICAT"}
    /\ \/ conn_details = EmptyDict
       \/ conn_details = FullDetails
       \/ conn_details = DetailsNoHost
    /\ ncx_file \in {NoFile, GoodFile}
    /\ \E host \in EnvValues, user \in EnvValues, password \in EnvValues :
           cfg = ConfigOf(host, user, password, SmartBusiness)
    /\ modules = AllModules
    /\ Constructed

resolve ==
    /\ lastOp' = [op |-> "_get_connection_details", pre |-> connection,
                  arg |-> <<>>,
                  out |-> get_connection_details(connection_type, conn_details,
                                                 ncx_file, cfg, modules)]
    /\ UNCHANGED <<connection_type, conn_details, ncx_file, cfg, modules,
                   connection, cursor, driverOpen, openCalls, phase>>

NextResolve == resolve

SpecResolve == InitResolve /\ [][NextResolve]_vars

(***************************************************************************)
(* Construction under every combination of importable driver modules       *)
(***************************************************************************)
DriverModules ==
    {[AllModules EXCEPT !.PYMSSQL_AVAILABLE = a, !.PYODBC_AVAILABLE = b] :
        a \in BOOLEAN, b \in BOOLEAN}

\* Before Database(...) is evaluated: the arguments and the environment are
\* fixed, no instance exists
InitConstruct ==
    /\ \E m \in DriverModules :
           Installation("DIRECT", FullDetails, NoFile, CfgComplete, m)
    /\ connection = NULL
    /\ cursor = NULL
    /\ driverOpen = {}
    /\ openCalls = 0
    /\ phase = "unconstructed"
    /\ lastOp = [op |-> "none", pre |-> NULL, arg |-> <<>>,
                 out |-> Outcome(NULL, NULL)]

\* Database.__init__: the fields are set, then the driver check raises
DatabaseInit(m) ==
    IF ~m.PYMSSQL_AVAILABLE /\ ~m.PYODBC_AVAILABLE
    THEN [Outcome(NULL, NULL) EXCEPT !.error = "ImportError",
                                     !.msg = "No database driver available"]
    ELSE Outcome(NULL, NULL)

\* Database(...): the caller holds an instance only if __init__ returns
construct ==
    /\ phase = "unconstructed"
    /\ LET out == DatabaseInit(modules)
       IN  /\ Effect("__init__", <<>>, out)
           /\ phase' = IF out.error = "none" THEN "live" ELSE "failed"

NextConstruct ==
    \/ construct
    \/ connect
    \/ execute_query
    \/ close

SpecConstruct == InitConstruct /\ [][NextConstruct]_vars

(***************************************************************************)
(* The instance used as a context manager                                  *)
(***************************************************************************)
InitContext ==
    /\ \/ Installation("DIRECT", FullDetails, NoFile, CfgComplete, AllModules)
       \/ Installation("DIRECT", DetailsNoHost, NoFile, CfgComplete, AllModules)
       \/ Installation("NAVICAT", EmptyDict, NoFile, CfgComplete, AllModules)
    /\ Constructed

\* "with db:" evaluates __enter__; the block is entered only if it returns
enter ==
    /\ phase = "live"
    /\ \E openOut \in OpenOutcomes, probeOut \in ProbeOutcomes :
           LET res == get_connection_details(connection_type, conn_details,
                                             ncx_file, cfg, modules)
               out == Enter(connection, cursor, res, cfg, modules, openOut, probeOut,
                            openCalls + 1)
           IN  /\ openCalls + out.openCalls <= MaxOpens
               /\ Effect("__enter__", <<>>, out)
               /\ phase' = IF out.error = "none" THEN "with" ELSE "live"

\* The block is left, normally or by an exception of the body: __exit__ runs
\* and its return value decides whether the exception is suppressed
exit ==
    /\ phase = "with"
    /\ \E raised \in BOOLEAN, closeOut \in CloseOutcomes :
           /\ Effect("__exit__", [raised |-> raised],
                     Exit(connection, cursor, closeOut))
           /\ phase' = "live"

NextContext ==
    \/ enter
    \/ exit
    \/ execute_query
    \/ close

SpecContext == InitContext /\ [][NextContext]_vars

(***************************************************************************)
(* execute_query over enumerated result sets, on either driver             *)
(***************************************************************************)
ColumnNames == {"a", "b"}
Values == {1, 2}
\* the result sets a driver can produce: every row as wide as the description
ResultSets ==
    UNION {{ResultData(columns, tuples) :
               columns \in [1..w -> ColumnNames],
               tuples \in UNION {[1..r -> [1..w -> Values]] : r \in 0..MaxRows}} :
           w \in 0..MaxColumns}

InitRows ==
    /\ \/ Installation("DIRECT", FullDetails, NoFile, CfgComplete, AllModules)
       \/ Installation("DIRECT", FullDetails, NoFile, CfgComplete, OdbcOnly)
    /\ Constructed

execute_query_rows ==
    \E data \in ResultSets :
        Apply("execute_query", [fetch |-> TRUE, data |-> data],
              ExecuteQuery(connection, cursor, Statement, <<>>, TRUE,
                           DriverAnswers(data, Len(data.tuples))))

\* the statement that follows connect()
first_query == lastOp.op = "connect" /\ execute_query_rows

NextRows ==
    \/ connect_once
    \/ close
    \/ first_query

SpecRows == InitRows /\ [][NextRows]_vars

(***************************************************************************)
(* The connection file reader over enumerated files and crypto modules     *)
(***************************************************************************)
\* <Connection> elements: complete, complete with Port and Database left to
\* their defaults, without Host, with a password no backend decrypts, with a
\* Port that is not an integer string, and with a password only AES decrypts
EntryKinds ==
    {Entry("h1", "u1", "ct_both", "1433", TestDB),
     Entry("h2", "u2", "ct_navicat_only", NoneStr, NoneId),
     Entry(NoneStr, "u3", "ct_both", "1433", TestDB),
     Entry("h4", "u4", "ct_none", "1433", TestDB),
     Entry("h5", "u5", "ct_both", "abc", TestDB),
     Entry("h6", "u6", "ct_aes_only", "1434", TestDB)}
Ciphertexts == {"ct_both", "ct_navicat_only", "ct_aes_only", "ct_none"}

MalformedFile == [exists |-> TRUE, wellformed |-> FALSE, entries |-> <<>>]
NcxFiles ==
    {NoFile, MalformedFile} \cup
    {FileOf(es) : es \in UNION {[1..n -> EntryKinds] : n \in 0..MaxEntries}}
CryptoModules ==
    {[AllModules EXCEPT !.NAVICAT_CIPHER_AVAILABLE = nav, !.CRYPTO_AVAILABLE = aes] :
        nav \in BOOLEAN, aes \in BOOLEAN}

InitNavicat ==
    /\ connection_type = "NAVICAT"
    /\ conn_details = EmptyDict
    /\ ncx_file \in NcxFiles
    /\ cfg = CfgComplete
    /\ modules \in CryptoModules
    /\ Constructed

\* A call of a static helper: the instance is left alone
StaticCall(op, arg, out) ==
    /\ lastOp' = [op |-> op, pre |-> connection, arg |-> arg, out |-> out]
    /\ UNCHANGED <<connection_type, conn_details, ncx_file, cfg, modules,
                   connection, cursor, driverOpen, openCalls, phase>>

decrypt ==
    \E encrypted_password \in Ciphertexts :
        StaticCall("_decrypt_navicat_password", encrypted_password,
                   decrypt_navicat_password(encrypted_password, modules))

parse ==
    StaticCall("_parse_ncx_file", <<>>,
               [connections |-> parse_ncx_file(ncx_file, modules)])

NextNavicat ==
    \/ decrypt
    \/ parse
    \/ resolve

SpecNavicat == InitNavicat /\ [][NextNavicat]_vars

(***************************************************************************)
(* The retry decorator (src/src/business_analyzer/ai/base.py) over         *)
(* enumerated behaviours of the wrapped function                           *)
(***************************************************************************)
\* What each invocation of the wrapped function does, by invocation number
FuncBehaviours == [1..MaxAttempts -> {"return", "raise"}]
RetryDelays == {0, 2}
RetryBackoffs == {1, 2}

\* The for loop of wrapper() from iteration attempt on; events are the
\* invocations of func and the time.sleep calls in the order they are made
\* (the two print calls of a failed attempt are left out). The result of the
\* n-th invocation and the exception it raises are identified by n. The
\* value is <<events, result>>.
RECURSIVE RetryLoop(_, _, _, _, _, _)
RetryLoop(attempt, current_delay, max_attempts, backoff, outcomes, events) ==
    IF attempt >= max_attempts
    THEN <<events, <<"return", 0>> >>
    ELSE LET called == Append(events, <<"call", attempt + 1>>)
         IN  IF outcomes[attempt + 1] = "return"
             THEN <<called, <<"return", attempt + 1>> >>
             ELSE IF attempt = max_attempts - 1
             THEN <<called, <<"raise", attempt + 1>> >>
             ELSE RetryLoop(attempt + 1, current_delay * backoff, max_attempts,
                            backoff, outcomes,
                            Append(called, <<"sleep", current_delay>>))

\* a wrapper that never retries
retry_on_failure_NoRetry(max_attempts, delay, backoff, outcomes) ==
    RetryLoop(0, delay, IF max_attempts > 1 THEN 1 ELSE max_attempts, backoff,
              outcomes, <<>>)

\* One call of a function decorated with
\* retry_on_failure(max_attempts, delay, backoff); the result <<"return", 0>>
\* is the "return None" after a loop that made no invocation
retry_on_failure(max_attempts, delay, backoff, outcomes) ==
    RetryLoop(0, delay, max_attempts, backoff, outcomes, <<>>)

InitRetry ==
    /\ Installation("DIRECT", FullDetails, NoFile, CfgComplete, AllModules)
    /\ Constructed

call_wrapped ==
    \E max_attempts \in 0..MaxAttempts, delay \in RetryDelays,
       backoff \in RetryBackoffs, outcomes \in FuncBehaviours :
        StaticCall("retry_on_failure",
                   <<max_attempts, delay, backoff, outcomes>>,
                   retry_on_failure(max_attempts, delay, backoff, outcomes))

NextRetry == call_wrapped

SpecRetry == InitRetry /\ [][NextRetry]_vars

(***************************************************************************)
(* Properties of the connection lifecycle                                  *)
(***************************************************************************)
ValidId(x) == validate_sql_identifier(x, "identifier").ok

\* every identifier a fetch_data call with these arguments validates is valid
FetchIdentifiersValid(arg) ==
    /\ ValidId(cfg.DB_NAME)
    /\ ValidId(IF Truthy(arg.table) THEN arg.table ELSE cfg.DB_TABLE)
    /\ LET codes == IF arg.excluded_codes \notin {NoneCodes, <<>>}
                    THEN arg.excluded_codes
                    ELSE cfg.EXCLUDED_DOCUMENT_CODES
       IN  \A i \in 1..Len(codes) : ValidId(codes[i])
    /\ \A i \in 1..Len(arg.columns) : ValidId(arg.columns[i])

\* the call made no driver call at all
NoDriverCall(out) ==
    /\ out.openCalls = 0
    /\ out.opened = {}
    /\ out.closeCalls = 0
    /\ out.sent = <<>>
    /\ out.commits = 0

\* C1: at most one driver connection opened by the instance is open at any
\* time, over any sequence of calls (failed and retried connects included).
C1_AtMostOneOpenConnection == Cardinality(driverOpen) <= 1

\* C2: connect() on a Connected instance makes no driver open call, raises
\* nothing, returns the instance and keeps the handle; a connect() that
\* connects from Unconnected makes exactly one open call, so two in a row
\* make exactly one.
C2_ConnectIdempotent ==
    lastOp.op = "connect" /\ lastOp.out.error = "none" =>
        /\ lastOp.out.ret = "self"
        /\ IF lastOp.pre /= NULL
           THEN /\ NoDriverCall(lastOp.out)
                /\ connection = lastOp.pre
           ELSE /\ lastOp.out.openCalls = 1
                /\ connection /= NULL
    /\ (lastOp.op = "connect" /\ lastOp.pre /= NULL => lastOp.out.error = "none")

C2_Witness ==
    lastOp.op = "connect" /\ lastOp.pre /= NULL /\ connection = lastOp.pre

\* C3: execute_query, and fetch_data with valid identifiers, on an
\* Unconnected instance fail with the 'Not connected to database'
\* ConnectionError and make no driver call.
C3_NotConnected ==
    /\ lastOp.pre = NULL
    /\ \/ lastOp.op = "execute_query"
       \/ lastOp.op = "fetch_data" /\ FetchIdentifiersValid(lastOp.arg)
    => /\ lastOp.out.error = "ConnectionError"
       /\ lastOp.out.msg = "Not connected to database"
       /\ NoDriverCall(lastOp.out)

C3_Witness ==
    /\ lastOp.op = "fetch_data"
    /\ lastOp.pre = NULL
    /\ FetchIdentifiersValid(lastOp.arg)
    /\ openCalls > 0

\* C4: get_columns with a valid table name on an Unconnected instance fails
\* with the 'Not connected to database' ConnectionError.
C4_GetColumnsNotConnected ==
    /\ lastOp.op = "get_columns"
    /\ lastOp.pre = NULL
    /\ ValidId(cfg.DB_NAME)
    /\ ValidId(IF Truthy(lastOp.arg.table) THEN lastOp.arg.table ELSE cfg.DB_TABLE)
    => /\ lastOp.out.error = "ConnectionError"
       /\ lastOp.out.msg = "Not connected to database"

\* the descriptor resolves and carries the keys the driver call reads
ResolutionUsable ==
    LET res == get_connection_details(connection_type, conn_details, ncx_file,
                                      cfg, modules)
    IN  res.ok /\ DriverArgsPresent(res.details)

C5_FailedConnect ==
    lastOp.op = "connect" /\ lastOp.out.error /= "none" =>
        /\ lastOp.out.error = "ConnectionError"
        /\ connection = NULL
        /\ ~is_connected(connection)

C5_Retry ==
    /\ lastOp.op = "connect"
    /\ lastOp.out.error /= "none"
    /\ lastOp'.op = "connect"
    => /\ lastOp'.pre = NULL
       /\ (ResolutionUsable => lastOp'.out.openCalls = 1)

\* C5: a connect() that fails at any stage raises ConnectionError and leaves
\* the instance Unconnected (handle null), and the connect() after it
\* attempts a fresh driver open.
C5_ConnectFailureLeavesUnconnected == [][C5_FailedConnect' /\ C5_Retry]_vars

C5_Witness ==
    /\ lastOp.op = "connect"
    /\ lastOp.out.error = "ConnectionError"
    /\ lastOp.out.opened /= {}
    /\ openCalls >= 2

\* C6: close() never raises and leaves the instance Unconnected with
\* connection and cursor cleared, from every state and also when the driver
\* close fails.
C6_CloseAlwaysClears ==
    lastOp.op = "close" =>
        /\ lastOp.out.error = "none"
        /\ connection = NULL
        /\ cursor = NULL
        /\ ~is_connected(connection)

C6_Witness ==
    /\ lastOp.op = "close"
    /\ lastOp.pre /= NULL
    /\ lastOp.out.closeCalls = 1
    /\ lastOp.out.closed = {}

\* C7: a statement failing in execute_query on a Connected instance surfaces
\* as QueryError after exactly one driver execute, and the instance stays
\* Connected with the same handle, neither closed nor replaced.
C7_QueryFailureKeepsConnection ==
    /\ lastOp.op = "execute_query"
    /\ lastOp.pre /= NULL
    /\ lastOp.out.error /= "none"
    => /\ lastOp.out.error = "QueryError"
       /\ Len(lastOp.out.sent) = 1
       /\ connection = lastOp.pre
       /\ lastOp.out.closeCalls = 0
       /\ lastOp.out.openCalls = 0
       /\ lastOp.pre \in driverOpen

C7_Witness ==
    /\ lastOp.op = "execute_query"
    /\ lastOp.pre /= NULL
    /\ lastOp.out.error = "QueryError"

(***************************************************************************)
(* Properties of validation and resolution                                 *)
(***************************************************************************)
\* the language [A-Za-z0-9_-]{1,128}
InLanguage(x) ==
    /\ Len(x) >= 1
    /\ Len(x) <= 128
    /\ \A i \in 1..Len(x) : x[i] \in IdentifierClass

\* C8: validate_sql_identifier returns every string of [A-Za-z0-9_-]{1,128}
\* unchanged and fails with ValueError on every other string (empty, too
\* long, any other character anywhere, a line break at the end included).
C8_ValidatorExact ==
    lastOp.op = "validate_sql_identifier" =>
        IF InLanguage(lastOp.arg.identifier)
        THEN lastOp.out.ok /\ lastOp.out.value = lastOp.arg.identifier
        ELSE ~lastOp.out.ok /\ lastOp.out.error = "ValueError"

\* the identifiers spliced into the statements a call sent to the driver
SplicedIds(out) ==
    {out.sent[i].query[j].id :
        <<i, j>> \in {p \in (1..Len(out.sent)) \X (1..20) :
                        /\ p[2] <= Len(out.sent[p[1]].query)
                        /\ out.sent[p[1]].query[p[2]].kind = "id"}}

\* the database, table and column names a call is to splice are all valid
SplicedArgsValid(op, arg) ==
    /\ ValidId(cfg.DB_NAME)
    /\ ValidId(IF Truthy(arg.table) THEN arg.table ELSE cfg.DB_TABLE)
    /\ op = "fetch_data" => \A i \in 1..Len(arg.columns) : ValidId(arg.columns[i])

\* C9: fetch_data and get_columns send query text to the driver only if every
\* database, table and column name spliced into it was accepted by
\* validate_sql_identifier; when one is rejected the call fails with the
\* validation error and sends nothing.
C9_OnlyValidatedIdentifiersSent ==
    lastOp.op \in {"fetch_data", "get_columns"} =>
        /\ \A x \in SplicedIds(lastOp.out) :
              /\ ValidId(x)
              /\ \E i \in 1..Len(lastOp.out.accepted) : lastOp.out.accepted[i] = x
        /\ ~SplicedArgsValid(lastOp.op, lastOp.arg) =>
              /\ lastOp.out.error = "ValueError"
              /\ lastOp.out.sent = <<>>
        /\ lastOp.out.rejected /= <<>> =>
              /\ lastOp.out.error = "ValueError"
              /\ lastOp.out.sent = <<>>

C9_Witness ==
    /\ lastOp.op = "fetch_data"
    /\ lastOp.out.sent /= <<>>
    /\ lastOp.arg.table = GoodTable
    /\ lastOp.arg.columns /= NoColumns
    /\ Cardinality(SplicedIds(lastOp.out)) >= 3

\* C10: Direct resolution returns explicit details verbatim; without them it
\* returns the descriptor built from the configuration only when host, user
\* and password are all present and raises ConnectionError otherwise.
C10_DirectResolution ==
    lastOp.op = "_get_connection_details" /\ connection_type = "DIRECT" =>
        IF DOMAIN conn_details /= {}
        THEN lastOp.out.ok /\ lastOp.out.details = conn_details
        ELSE IF /\ cfg.DB_HOST \notin {NoneStr, ""}
                /\ cfg.DB_USER \notin {NoneStr, ""}
                /\ cfg.DB_PASSWORD \notin {NoneStr, ""}
        THEN /\ lastOp.out.ok
             /\ lastOp.out.details =
                    [Host |-> cfg.DB_HOST, Port |-> cfg.DB_PORT,
                     UserName |-> cfg.DB_USER, Password |-> cfg.DB_PASSWORD,
                     Database |-> cfg.DB_NAME]
        ELSE /\ ~lastOp.out.ok
             /\ lastOp.out.error = "ConnectionError"
             /\ lastOp.out.msg = "No direct database configuration found"
             /\ lastOp.out.details = EmptyDict

C10_Witness ==
    /\ lastOp.op = "_get_connection_details"
    /\ connection_type = "DIRECT"
    /\ DOMAIN conn_details = {}
    /\ cfg.DB_HOST = "set"
    /\ cfg.DB_USER = "set"
    /\ cfg.DB_PASSWORD = NoneStr
    /\ ~lastOp.out.ok

(***************************************************************************)
(* Properties of the connection file reader                                *)
(***************************************************************************)
\* the entry has Host, UserName and Password
HasCredentials(e) ==
    TruthyStr(e.Host) /\ TruthyStr(e.UserName) /\ TruthyStr(e.Password)

\* the entry has them and its password decrypts
Usable(e, m) ==
    HasCredentials(e) /\ decrypt_navicat_password(e.Password, m).ok

\* position of the first usable entry in document order, 0 if there is none
FirstUsable(entries, m) ==
    LET idx == {i \in 1..Len(entries) : Usable(entries[i], m)}
    IN  IF idx = {} THEN 0 ELSE CHOOSE i \in idx : \A j \in idx : i <= j

\* C11: resolving NAVICAT on a readable file returns the first entry in
\* document order that has Host, UserName and Password and a password that
\* decrypts; entries without them or with an undecryptable password are
\* skipped and never stop the later entries from being read.
C11_FirstUsableEntryReturned ==
    (/\ lastOp.op = "_get_connection_details"
     /\ connection_type = "NAVICAT"
     /\ ncx_file.exists /\ ncx_file.wellformed)
    => LET i == FirstUsable(ncx_file.entries, modules)
           e == ncx_file.entries[i]
       IN  IF i = 0
           THEN ~lastOp.out.ok
           ELSE /\ lastOp.out.ok
                /\ lastOp.out.details.Host = e.Host
                /\ lastOp.out.details.UserName = e.UserName
                /\ lastOp.out.details.Password =
                       decrypt_navicat_password(e.Password, modules).value

(***************************************************************************)
(* Properties of resolution inside connect()                               *)
(***************************************************************************)
\* the connect() call failed with this ConnectionError before any driver call
FailedFast(text) ==
    /\ lastOp.out.error = "ConnectionError"
    /\ lastOp.out.msg = text
    /\ NoDriverCall(lastOp.out)
    /\ connection = NULL

\* C12: connect() on an unconnected NAVICAT instance raises the
\* file-not-found error when the file is absent and the no-valid-connections
\* error when the file has no usable entry, whatever direct configuration
\* or details are present; connect() on a DIRECT instance without details
\* and without a complete configuration raises the no-configuration error
\* whatever connection file exists; none of them calls the driver.
C12_ResolutionFailsFast ==
    (lastOp.op = "connect" /\ lastOp.pre = NULL)
    => /\ (connection_type = "NAVICAT" /\ ~ncx_file.exists)
          => FailedFast("Navicat NCX file not found")
       /\ (/\ connection_type = "NAVICAT"
           /\ ncx_file.exists
           /\ FirstUsable(ncx_file.entries, modules) = 0)
          => FailedFast("No valid connections found in NCX file")
       /\ (/\ connection_type = "DIRECT"
           /\ DOMAIN conn_details = {}
           /\ ~(TruthyStr(cfg.DB_HOST) /\ TruthyStr(cfg.DB_USER)
                                      /\ TruthyStr(cfg.DB_PASSWORD)))
          => FailedFast("No direct database configuration found")

\* a NAVICAT connect() on a readable file without usable entries has failed
\* although details and a complete direct configuration were at hand
C12_Witness ==
    /\ lastOp.op = "connect"
    /\ connection_type = "NAVICAT"
    /\ ncx_file.exists
    /\ FirstUsable(ncx_file.entries, modules) = 0
    /\ DOMAIN conn_details /= {}
    /\ TruthyStr(cfg.DB_HOST) /\ TruthyStr(cfg.DB_USER) /\ TruthyStr(cfg.DB_PASSWORD)
    /\ lastOp.out.msg = "No valid connections found in NCX file"

\* a DIRECT connect() without configuration has failed although a connection
\* file with a usable entry exists
C12_WitnessDirect ==
    /\ lastOp.op = "connect"
    /\ connection_type = "DIRECT"
    /\ ncx_file.exists
    /\ FirstUsable(ncx_file.entries, modules) /= 0
    /\ lastOp.out.msg = "No direct database configuration found"

\* C13: an SSH_TUNNEL instance is never connected: each connect() on it
\* raises the not-yet-implemented ConnectionError, calls no driver, and
\* never uses the details or the direct configuration it was given.
C13_SshNeverConnects ==
    connection_type = "SSH_TUNNEL"
    => /\ connection = NULL
       /\ driverOpen = {}
       /\ openCalls = 0
       /\ lastOp.op = "connect"
          => /\ lastOp.out.error = "ConnectionError"
             /\ lastOp.out.msg = "SSH tunnel connection not yet implemented"
             /\ NoDriverCall(lastOp.out)
             /\ lastOp.out.ret = "None"

\* connect() has been called on an SSH_TUNNEL instance that was given
\* details and a complete direct configuration
C13_Witness ==
    /\ connection_type = "SSH_TUNNEL"
    /\ lastOp.op = "connect"
    /\ DOMAIN conn_details /= {}
    /\ TruthyStr(cfg.DB_HOST) /\ TruthyStr(cfg.DB_USER) /\ TruthyStr(cfg.DB_PASSWORD)

(***************************************************************************)
(* Properties of password decryption                                       *)
(***************************************************************************)
\* the backend is importable and decrypts this ciphertext
NavicatSucceeds(ct, m) == m.NAVICAT_CIPHER_AVAILABLE /\ ct \in NavicatDecryptable
AesSucceeds(ct, m) == m.CRYPTO_AVAILABLE /\ ct \in AesDecryptable

\* the strategies that are available, in the order NavicatCipher, AES
AvailableStrategies(m) ==
    (IF m.NAVICAT_CIPHER_AVAILABLE THEN <<"navicat">> ELSE <<>>)
    \o (IF m.CRYPTO_AVAILABLE THEN <<"aes">> ELSE <<>>)

\* C14: _decrypt_navicat_password invokes NavicatCipher first (if available)
\* and the AES fallback second (if available); it returns what the first
\* succeeding strategy yields and invokes nothing after it; when every
\* available strategy fails, or none is available, it raises
\* 'No decryption method available' and returns no value.
C14_DecryptOrder ==
    lastOp.op = "_decrypt_navicat_password"
    => LET ct == lastOp.arg
           r == lastOp.out
       IN  /\ NavicatSucceeds(ct, modules)
              => /\ r.ok
                 /\ r.value = NavicatPlain(ct)
                 /\ r.tried = <<"navicat">>
           /\ (~NavicatSucceeds(ct, modules) /\ AesSucceeds(ct, modules))
              => /\ r.ok
                 /\ r.value = AesPlain(ct)
                 /\ r.tried = AvailableStrategies(modules)
           /\ (~NavicatSucceeds(ct, modules) /\ ~AesSucceeds(ct, modules))
              => /\ ~r.ok
                 /\ r.value = NoneStr
                 /\ r.msg = "No decryption method available"
                 /\ r.tried = AvailableStrategies(modules)

\* with both backends available NavicatCipher failed on the input and the
\* AES fallback, invoked second, produced the value returned
C14_Witness ==
    /\ lastOp.op = "_decrypt_navicat_password"
    /\ lastOp.out.tried = <<"navicat", "aes">>
    /\ lastOp.out.ok
    /\ lastOp.out.value = AesPlain(lastOp.arg)

\* C15 as stated: the 'No decryption method available' error is raised only
\* when neither backend is present; when a backend is present and fails on
\* the input, the caller receives the backend's cipher error.
C15_CipherErrorPropagates ==
    lastOp.op = "_decrypt_navicat_password"
    => /\ lastOp.out.msg = "No decryption method available"
          => AvailableStrategies(modules) = <<>>
       /\ (AvailableStrategies(modules) /= <<>> /\ ~lastOp.out.ok)
          => lastOp.out.error = "CipherError"

\* C15: _decrypt_navicat_password fails exactly when no present backend
\* decrypts the input, that is when none is present or every present one
\* fails on it, always with the ImportError 'No decryption method
\* available'; the cipher error of a failing backend is logged as a warning,
\* one per failed backend, and is never what the caller receives.
C15_CipherErrorSwallowed ==
    lastOp.op = "_decrypt_navicat_password"
    => /\ ~lastOp.out.ok
          <=> ~(NavicatSucceeds(lastOp.arg, modules) \/ AesSucceeds(lastOp.arg, modules))
       /\ ~lastOp.out.ok
          => /\ lastOp.out.error = "ImportError"
             /\ lastOp.out.msg = "No decryption method available"
             /\ Len(lastOp.out.warnings) = Len(AvailableStrategies(modules))
       /\ lastOp.out.ok
          => Len(lastOp.out.warnings) = Len(lastOp.out.tried) - 1

\* a present backend failed on the input and the caller got the ImportError
C15_Witness ==
    /\ lastOp.op = "_decrypt_navicat_password"
    /\ AvailableStrategies(modules) /= <<>>
    /\ ~lastOp.out.ok
    /\ lastOp.out.error = "ImportError"
    /\ lastOp.out.warnings /= <<>>

(***************************************************************************)
(* Properties of construction and of the driver choice                     *)
(***************************************************************************)
\* C16: the driver check is made by the constructor: with neither pymssql
\* nor pyodbc importable Database(...) raises the no-driver ImportError and
\* no instance exists on which a later call could fail; on every instance
\* that exists a driver is available, and each connect() and execute_query()
\* that reaches a driver goes to pymssql if it is available and to pyodbc
\* only otherwise.
C16_DriverDecidedAtConstruction ==
    /\ (/\ lastOp.op = "__init__"
        /\ ~modules.PYMSSQL_AVAILABLE /\ ~modules.PYODBC_AVAILABLE)
       => /\ lastOp.out.error = "ImportError"
          /\ lastOp.out.msg = "No database driver available"
          /\ phase = "failed"
    /\ phase = "failed" => lastOp.op = "__init__" /\ connection = NULL
    /\ phase = "unconstructed" => lastOp.op = "none"
    /\ phase \in {"live", "with"}
       => modules.PYMSSQL_AVAILABLE \/ modules.PYODBC_AVAILABLE
    /\ (lastOp.op = "connect" /\ lastOp.out.openCalls = 1)
       => lastOp.out.driver =
             IF modules.PYMSSQL_AVAILABLE THEN "pymssql" ELSE "pyodbc"
    /\ (lastOp.op = "execute_query" /\ lastOp.out.sent /= <<>>)
       => lastOp.out.driver =
             IF modules.PYMSSQL_AVAILABLE THEN "pymssql" ELSE "pyodbc"

\* a statement has run through pyodbc on an instance constructed where
\* pymssql is not importable
C16_Witness ==
    /\ phase = "live"
    /\ ~modules.PYMSSQL_AVAILABLE
    /\ lastOp.op = "execute_query"
    /\ lastOp.out.sent /= <<>>
    /\ lastOp.out.driver = "pyodbc"

\* construction has failed for lack of a driver
C16_WitnessNoDriver ==
    /\ phase = "failed"
    /\ lastOp.out.error = "ImportError"

(***************************************************************************)
(* Properties of execute_query results                                     *)
(***************************************************************************)
\* the rows of a result set as column-name-to-value mappings, in row order;
\* a column name that occurs twice maps to the value of its last occurrence
RowsOf(data) ==
    [i \in 1..Len(data.tuples) |->
        [k \in {data.columns[j] : j \in 1..Len(data.columns)} |->
            LET js == {j \in 1..Len(data.columns) : data.columns[j] = k}
                last == CHOOSE j \in js : \A j2 \in js : j2 <= j
            IN  data.tuples[i][last]]]

\* C17: a successful execute_query(fetch=True) returns, for a given result
\* set, one column-name-to-value row per data row, in the data's row order,
\* with the data's column names and values; the rows depend on the data
\* only, so they are the same on pymssql (associative rows) and on pyodbc
\* (tuples zipped with the column description).
C17_RowShapeEquivalence ==
    (/\ lastOp.op = "execute_query"
     /\ lastOp.arg.fetch
     /\ lastOp.out.error = "none"
     /\ "data" \in DOMAIN lastOp.arg)
    => /\ lastOp.out.ret = "rows"
       /\ lastOp.out.rows = RowsOf(lastOp.arg.data)

\* pyodbc tuples with a repeated column name have been zipped into rows
C17_Witness ==
    /\ lastOp.op = "execute_query"
    /\ "data" \in DOMAIN lastOp.arg
    /\ lastOp.out.driver = "pyodbc"
    /\ lastOp.out.error = "none"
    /\ lastOp.arg.data.columns = <<"a", "a">>
    /\ lastOp.arg.data.tuples = << <<1, 2>>, <<2, 1>> >>
    /\ Len(lastOp.out.rows) = 2

\* C18: execute_query commits exactly when fetch is false: a successful
\* fetch=False call returns the affected-row count and issues one commit, a
\* fetch=True call returns the rows and issues none, and a call that raises
\* issues none.
C18_CommitIffNotFetch ==
    lastOp.op = "execute_query"
    => /\ (lastOp.out.error = "none" /\ ~lastOp.arg.fetch)
          => /\ lastOp.out.ret = "rowcount"
             /\ lastOp.out.commits = 1
       /\ lastOp.arg.fetch
          => /\ lastOp.out.commits = 0
             /\ lastOp.out.error = "none" => lastOp.out.ret = "rows"
       /\ lastOp.out.error /= "none" => lastOp.out.commits = 0

\* a fetch=False statement has succeeded and committed
C18_Witness ==
    /\ lastOp.op = "execute_query"
    /\ ~lastOp.arg.fetch
    /\ lastOp.out.error = "none"
    /\ lastOp.out.sent /= <<>>
    /\ lastOp.out.commits = 1

\* a fetch=True statement has succeeded without a commit
C18_WitnessFetch ==
    /\ lastOp.op = "execute_query"
    /\ lastOp.arg.fetch
    /\ lastOp.out.ret = "rows"
    /\ lastOp.out.commits = 0

(***************************************************************************)
(* Properties of the context manager                                       *)
(***************************************************************************)
\* the step enters the with block
C19_Entering == phase = "live" /\ phase' = "with"

\* the step leaves the with block
C19_Leaving == phase = "with" /\ phase' /= "with"

\* C19: entering a with block connects: the block is entered with the
\* instance connected, and an __enter__ that raises does not enter it;
\* leaving the block, whether or not the body raised, runs __exit__, which
\* closes the connection held, leaves the instance unconnected and returns
\* False, so an exception of the body is not suppressed.
C19_ScopedAcquisition ==
    [][/\ C19_Entering
          => /\ lastOp'.op = "__enter__"
             /\ lastOp'.out.ret = "self"
             /\ connection' /= NULL
       /\ (lastOp'.op = "__enter__" /\ lastOp'.out.error /= "none")
          => phase' = "live" /\ connection' = NULL
       /\ C19_Leaving
          => /\ lastOp'.op = "__exit__"
             /\ connection /= NULL
                => lastOp'.out.closeCalls = 1 /\ connection \notin lastOp'.out.opened
             /\ connection' = NULL
             /\ cursor' = NULL
             /\ lastOp'.out.ret = "False"
             /\ lastOp'.out.error = "none"
             /\ phase' = "live"]_vars

\* a block whose body raised has been left: the connection it held is
\* closed and the exception is not suppressed
C19_Witness ==
    /\ lastOp.op = "__exit__"
    /\ lastOp.arg.raised
    /\ lastOp.pre /= NULL
    /\ lastOp.out.closeCalls = 1
    /\ lastOp.out.ret = "False"
    /\ connection = NULL
    /\ phase = "live"

(***************************************************************************)
(* Properties of the queries fetch_data sends                              *)
(***************************************************************************)
\* the statement has a NOT IN clause
HasNotIn(stmt) ==
    \E i \in 1..Len(stmt.query) :
        stmt.query[i] = Lit(" WHERE DocumentosCodigo NOT IN (")

\* the statement binds an excluded-code parameter
HasCodeParams(stmt) ==
    \E i \in 1..Len(stmt.params) : stmt.params[i].kind = "code"

\* C20: the query fetch_data sends when it is called with an empty
\* excluded-codes list has no NOT IN clause and binds no excluded-code
\* parameter.
C20_EmptyCodesNoNotIn ==
    (/\ lastOp.op = "fetch_data"
     /\ lastOp.arg.excluded_codes = NoCodes
     /\ lastOp.out.sent /= <<>>)
    => /\ ~HasNotIn(lastOp.out.sent[1])
       /\ ~HasCodeParams(lastOp.out.sent[1])

\* the literal pieces of the statement that are date clauses
DateClauses(stmt) ==
    SelectSeq(stmt.query,
              LAMBDA part : part.kind = "lit" /\
                            part.lit \in {" AND Fecha BETWEEN %s AND %s",
                                          " AND Fecha >= %s", " AND Fecha <= %s"})

\* the date parameters the statement binds, in order
DateParams(stmt) == SelectSeq(stmt.params, LAMBDA param : param.kind = "date")

\* every piece of query text is one of the fixed literals of fetch_data or a
\* validated identifier: no limit and no date value is part of the text
TextIsFixed(stmt) ==
    \A i \in 1..Len(stmt.query) :
        \/ stmt.query[i].kind = "id"
        \/ stmt.query[i].lit \in
              {"SELECT TOP %s ", "*", ", ", " FROM [", "].[dbo].[", "]",
               " WHERE DocumentosCodigo NOT IN (", "%s", ")",
               " AND Fecha BETWEEN %s AND %s", " AND Fecha >= %s",
               " AND Fecha <= %s"}

\* C21: the query fetch_data sends has the date clause its dates call for:
\* BETWEEN with start then end bound for both, >= with start for a start
\* only, <= with end for an end only, none for neither; the date values and
\* the limit are bound parameters and no part of the query text.
C21_DateClauseByPresence ==
    (lastOp.op = "fetch_data" /\ lastOp.out.sent /= <<>>)
    => LET stmt == lastOp.out.sent[1]
           start == lastOp.arg.start_date
           end == lastOp.arg.end_date
           hasStart == start \notin {NoneStr, ""}
           hasEnd == end \notin {NoneStr, ""}
           lim == IF lastOp.arg.limit = NoLimit THEN cfg.DEFAULT_LIMIT
                  ELSE lastOp.arg.limit
       IN  /\ (hasStart /\ hasEnd)
              => /\ DateClauses(stmt) = <<Lit(" AND Fecha BETWEEN %s AND %s")>>
                 /\ DateParams(stmt) = <<DateParam(start), DateParam(end)>>
           /\ (hasStart /\ ~hasEnd)
              => /\ DateClauses(stmt) = <<Lit(" AND Fecha >= %s")>>
                 /\ DateParams(stmt) = <<DateParam(start)>>
           /\ (~hasStart /\ hasEnd)
              => /\ DateClauses(stmt) = <<Lit(" AND Fecha <= %s")>>
                 /\ DateParams(stmt) = <<DateParam(end)>>
           /\ (~hasStart /\ ~hasEnd)
              => DateClauses(stmt) = <<>> /\ DateParams(stmt) = <<>>
           /\ TextIsFixed(stmt)
           /\ stmt.params[1] = IntParam(lim)
           /\ \A i \in 2..Len(stmt.params) : stmt.params[i].kind /= "int"

\* a query with two different dates has been sent
C21_Witness ==
    /\ lastOp.op = "fetch_data"
    /\ lastOp.out.sent /= <<>>
    /\ lastOp.arg.start_date = "2025-01-01"
    /\ lastOp.arg.end_date = "2025-12-31"
    /\ lastOp.arg.limit = 50
    /\ Len(lastOp.out.sent[1].params) >= 3

PlaceholderKinds(part) ==
    IF part.kind /= "lit" THEN <<>>
    ELSE IF part.lit = "SELECT TOP %s " THEN <<"int">>
    ELSE IF part.lit = "%s" THEN <<"code">>
    ELSE IF part.lit = " AND Fecha BETWEEN %s AND %s" THEN <<"date", "date">>
    ELSE IF part.lit \in {" AND Fecha >= %s", " AND Fecha <= %s"} THEN <<"date">>
    ELSE <<>>

RECURSIVE QueryPlaceholders(_)
QueryPlaceholders(query) ==
    IF query = <<>> THEN <<>>
    ELSE PlaceholderKinds(Head(query)) \o QueryPlaceholders(Tail(query))

\* C29: in every query fetch_data sends there are as many %s placeholders in
\* the text as bound parameters, and the parameters are in placeholder
\* order: the limit, then the excluded codes in list order, then the start
\* date and/or the end date.
C29_PlaceholdersMatchParams ==
    (lastOp.op = "fetch_data" /\ lastOp.out.sent /= <<>>)
    => LET stmt == lastOp.out.sent[1]
           holes == QueryPlaceholders(stmt.query)
           codes == IF lastOp.arg.excluded_codes \notin {NoneCodes, <<>>}
                    THEN lastOp.arg.excluded_codes
                    ELSE cfg.EXCLUDED_DOCUMENT_CODES
           dates == SelectSeq(<<lastOp.arg.start_date, lastOp.arg.end_date>>,
                              LAMBDA d : d \notin {NoneStr, ""})
           lim == IF lastOp.arg.limit = NoLimit THEN cfg.DEFAULT_LIMIT
                  ELSE lastOp.arg.limit
       IN  /\ Len(holes) = Len(stmt.params)
           /\ \A i \in 1..Len(holes) : holes[i] = stmt.params[i].kind
           /\ stmt.params = <<IntParam(lim)>>
                             \o [i \in 1..Len(codes) |-> CodeParam(codes[i])]
                             \o [i \in 1..Len(dates) |-> DateParam(dates[i])]

\* a query with a limit, two codes and two dates has been sent
C29_Witness ==
    /\ lastOp.op = "fetch_data"
    /\ lastOp.out.sent /= <<>>
    /\ Len(lastOp.arg.excluded_codes) = 2
    /\ Len(lastOp.out.sent[1].params) = 5
    /\ QueryPlaceholders(lastOp.out.sent[1].query)
          = <<"int", "code", "code", "date", "date">>

(***************************************************************************)
(* Properties of connect(): errors, log output, the probe and the handle   *)
(***************************************************************************)
\* C22: a connect() failure caused by a timeout is surfaced as 'Database
\* connection timeout', and every other connect() failure as 'Failed to
\* connect to database', so the message tells a timeout from a rejection.
C22_TimeoutDistinguishable ==
    lastOp.op = "connect" /\ lastOp.out.raised /= "none" =>
        /\ lastOp.out.error = "ConnectionError"
        /\ lastOp.out.msg = "Database connection timeout"
               <=> DriverError(lastOp.out.raised).cause = "timeout"

\* The descriptor with other credentials under the keys it has
WithCredentials(d, user, password) ==
    [k \in DOMAIN d |-> IF k = "UserName" THEN user
                        ELSE IF k = "Password" THEN password
                        ELSE d[k]]

OtherUsers == {"testuser", "u1", "admin"}
OtherPasswords == {"testpass", "hunter2"}

\* The log of the connect() call of the last step had the descriptor been
\* resolved with the given credentials, for given driver answers
LogOfConnect(user, password, openOut, probeOut) ==
    LET res == get_connection_details(connection_type, conn_details, ncx_file,
                                      cfg, modules)
        other == IF res.ok
                 THEN [res EXCEPT !.details = WithCredentials(@, user, password)]
                 ELSE res
    IN  Connect(lastOp.pre, NULL, other, cfg, modules, openOut, probeOut, 1).log

ProbeReturnedNone(out) ==
    \E i \in 1..Len(out.log) :
        out.log[i].text = "DB connection test" /\ out.log[i].extra = NoneStr

\* C24: a probe that returns an empty result makes connect() fail with a
\* connection error and leaves the instance Unconnected, although the driver
\* open succeeded.
C24_EmptyProbeFails ==
    lastOp.op = "connect" /\ ProbeReturnedNone(lastOp.out) =>
        /\ lastOp.out.error = "ConnectionError"
        /\ connection = NULL

\* C27: when the driver open succeeds and a later step of the same connect()
\* call fails, the handle that was opened is closed before the error
\* propagates.
C27_NoOrphanedHandle ==
    lastOp.op = "connect" /\ lastOp.out.error /= "none" =>
        lastOp.out.opened \subseteq lastOp.out.closed

\* Valid configuration and an importable driver
CanConnect ==
    /\ ResolutionUsable
    /\ modules.PYMSSQL_AVAILABLE \/ modules.PYODBC_AVAILABLE

\* C30: an instance is reusable after close(): a connect() that follows a
\* close(), with valid configuration and a driver that raises nothing,
\* performs a new underlying open and leaves the instance Connected on a
\* handle that was not open before.
C30_ReusableAfterClose ==
    [][lastOp.op = "close" /\ lastOp'.op = "connect" /\ CanConnect
          /\ lastOp'.out.raised = "none"
       => /\ lastOp'.out.error = "none"
          /\ lastOp'.out.openCalls = 1
          /\ connection' /= NULL
          /\ connection' \notin driverOpen
          /\ connection' \in driverOpen']_vars

\* The instance is Connected again on the handle of a second open, the first
\* one being closed
C30_Witness ==
    /\ lastOp.op = "connect"
    /\ lastOp.pre = NULL
    /\ openCalls >= 2
    /\ connection /= NULL
    /\ driverOpen = {connection}

(***************************************************************************)
(* Properties of the connection file reader on a malformed Port            *)
(***************************************************************************)
\* the entry is usable and its Port is absent or an integer string
FullyValid(e, m) ==
    Usable(e, m) /\ (e.Port = NoneStr \/ e.Port \in IntStrings)

\* the entry is usable but its Port is not an integer string
MalformedPort(e, m) ==
    Usable(e, m) /\ e.Port /= NoneStr /\ e.Port \notin IntStrings

\* C28: when a readable connection file has a usable entry whose Port is not
\* an integer string, parsing still returns every fully valid entry of the
\* file, in document order.
C28_MalformedPortKeepsOthers ==
    (/\ lastOp.op = "_parse_ncx_file"
     /\ ncx_file.exists /\ ncx_file.wellformed
     /\ \E i \in 1..Len(ncx_file.entries) :
            MalformedPort(ncx_file.entries[i], modules))
    => LET valid == SelectSeq(ncx_file.entries,
                              LAMBDA e : FullyValid(e, modules))
           found == lastOp.out.connections
       IN  [i \in 1..Len(found) |-> found[i].Host]
               = [i \in 1..Len(valid) |-> valid[i].Host]

(***************************************************************************)
(* Properties of the retry decorator                                       *)
(***************************************************************************)
\* number of the first invocation among the first n that returns, 0 if none
FirstSuccess(outcomes, n) ==
    LET idx == {i \in 1..n : outcomes[i] = "return"}
    IN  IF idx = {} THEN 0 ELSE CHOOSE i \in idx : \A j \in idx : i <= j

\* C26: a function wrapped by retry_on_failure(max_attempts=n), n >= 1, is
\* invoked at most n times per call: the wrapper returns the result of the
\* first invocation that succeeds and invokes no more; if all n invocations
\* raise, the exception of the n-th propagates; it sleeps once between
\* consecutive attempts and not after the last one.
C26_RetryAtMostN ==
    lastOp.op = "retry_on_failure" /\ lastOp.arg[1] >= 1 =>
        LET n == lastOp.arg[1]
            k == FirstSuccess(lastOp.arg[4], n)
            made == IF k /= 0 THEN k ELSE n
            events == lastOp.out[1]
        IN  /\ Len(events) = 2 * made - 1
            /\ \A i \in 1..Len(events) :
                   IF i % 2 = 1
                   THEN events[i] = <<"call", (i + 1) \div 2>>
                   ELSE events[i][1] = "sleep"
            /\ lastOp.out[2] =
                   IF k /= 0 THEN <<"return", k>> ELSE <<"raise", n>>

\* two invocations raise, the wrapper sleeps after each, the third returns
C26_Witness ==
    /\ lastOp.op = "retry_on_failure"
    /\ lastOp.arg[1] = 3
    /\ lastOp.arg[4][1] = "raise"
    /\ lastOp.arg[4][2] = "raise"
    /\ lastOp.arg[4][3] = "return"
    /\ Len(lastOp.out[1]) = 5
    /\ lastOp.out[2] = <<"return", 3>>

====
